---- MODULE Spec2Model ----
(***************************************************************************)
(* A model of the scheduled-post pipeline of auto-socials-backend:         *)
(*   - the ZeroID payment webhook and the payment / subscription ledger,   *)
(*   - the post store, the scheduler loop, the Celery task and the         *)
(*     post executor,                                                      *)
(*   - the usage ledger and the Instagram account lock.                    *)
(* The relational store is PostgreSQL at READ COMMITTED (psycopg2's        *)
(* default): a statement sees what was committed when it starts, an        *)
(* UPDATE of a row another transaction has updated waits for that          *)
(* transaction and then looks at the row again.                            *)
(***************************************************************************)
EXTENDS Integers, Sequences, FiniteSets, TLC

NULL == "NULL"
\* a NULL timestamp (scheduled_time IS NULL, no eta)
NoTime == 0 - 1
\* a stored scheduled_time that is a text and no ISO timestamp
BadTime == 0 - 2

\* ---------------------------------------------------------------- bounds
NumDeliveries == 3
MaxPosts == 2
MaxTime == 2
MaxApiCalls == 2

\* ------------------------------------------------------------ static data
Deliveries == 1..NumDeliveries
PostIds == 1..MaxPosts

\* rows of app.accounts: id -> platform
Accounts == {"a1", "a2", "a3", "a4"}

\* rows of auth.subscription_plans that exist (plan 3 was deleted by the admin)
subscription_plans == {1, 2}

\* The payment intents that checkout has created, by external reference.
\*   r1, r2: subscription intents of user u1 (plans 1 and 2)
\*   r3:     post-payment intent, immediate post
\*   r4:     post-payment intent, scheduled post
\*   r5:     subscription intent of user u2 for a plan deleted since
\*   r6:     post-payment intent whose account id is not a row of accounts
\*   r7:     post-payment intent whose stored scheduled_time does not parse
SubscriptionIntents ==
    [r \in {"r1", "r2", "r5"} |->
        CASE r = "r1" -> [user_id |-> "u1", plan_id |-> 1]
          [] r = "r2" -> [user_id |-> "u1", plan_id |-> 2]
          [] OTHER    -> [user_id |-> "u2", plan_id |-> 3]]

PostIntents ==
    [r \in {"r3", "r4", "r6", "r7"} |->
        CASE r = "r3" -> [user_id |-> "u1",
                          post_data |-> [account_ids |-> <<"a1">>, scheduled_time |-> NoTime]]
          [] r = "r4" -> [user_id |-> "u1",
                          post_data |-> [account_ids |-> <<"a1", "a2">>, scheduled_time |-> 1]]
          [] r = "r7" -> [user_id |-> "u1",
                          post_data |-> [account_ids |-> <<"a1">>, scheduled_time |-> BadTime]]
          [] OTHER    -> [user_id |-> "u1",
                          post_data |-> [account_ids |-> <<"a9">>, scheduled_time |-> NoTime]]]

SubRefs == DOMAIN SubscriptionIntents
PostRefs == DOMAIN PostIntents
IntentRefs == SubRefs \cup PostRefs
\* references a webhook payload may carry: the known ones, an unknown one, none
PayloadRefs == IntentRefs \cup {"r0", NULL}

\* a JSON number in the place of a text (truthy, and no str)
NonText == {"#200"}
StatusValues == {NULL, "paid", "PAID", "success", "Successful", "pending", "#200"}
EventValues == {NULL, "payment.success", "PAYMENT.PAID", "payment.failed", "#200"}

VARIABLES
    \* ---- payment ledger (auth schema), committed state
    payment_status,      \* reference -> "pending" | "paid"
    row_lock,            \* reference -> delivery whose open transaction updated the row
    user_subscriptions,  \* sequence of rows [user_id, plan_id, is_active]
    \* ---- one webhook request per delivery
    d_pc, d_ref, d_resp,
    d_payload,           \* the status and event fields of the payload, where recorded
    d_snap,              \* rows the deactivating UPDATE of the open transaction found
    effects,             \* reference -> what the webhook has done for it (history)
    \* ---- post store and task queue
    posts,               \* post id -> row of posts, or NoPost
    queue,               \* the messages in the broker (a bag, kept as a sorted sequence)
    now,                 \* the clock
    api_calls,           \* requests made to the posts API so far
    \* ---- scheduler processes
    sched_pc, due_posts,
    \* ---- Celery workers running execute_scheduled_post / execute_post
    w_pc, w_task, any_success,
    \* ---- history of the pipeline's submissions
    submissions,         \* post id -> [direct, scheduler] since it last entered Pending
    \* ---- execute_post: the loop over platform groups and accounts
    w_groups, w_gi, w_ai, w_attempt, w_outcome,
    w_cs,                \* how the worker is inside the instagram critical section
    w_run,               \* what the worker's current or last run has done
    \* ---- usage ledger and lock service
    usage_counters, redis_lock,
    overtaken            \* (user, platform) -> a consumption followed an overtaken check

payVars == <<payment_status, row_lock, user_subscriptions, d_pc, d_ref, d_resp,
             d_payload, d_snap, effects>>
storeVars == <<posts, queue>>
clockVars == <<now, api_calls>>
schedVars == <<sched_pc, due_posts>>
workerVars == <<w_pc, w_task, any_success>>
loopVars == <<w_groups, w_gi, w_ai, w_attempt, w_outcome, w_cs, w_run>>
ledgerVars == <<usage_counters, redis_lock, overtaken>>
postVars == <<clockVars, schedVars, workerVars, loopVars, ledgerVars, submissions>>
vars == <<payVars, storeVars, postVars>>

\* ------------------------------------------------------------ post store
Times == 0..MaxTime
\* run_scheduler.py starts one SchedulerWorker per process; two processes
Schedulers == {"s1", "s2"}
\* Celery worker processes
Workers == {"w1", "w2"}
NoTask == [post_id |-> 0, eta |-> 0, retries |-> 0]
NoSubmissions == [direct |-> 0, scheduler |-> 0]

Users == {"u1", "u2"}
\* accounts.platform of the rows of accounts
platform_of ==
    [a \in Accounts |-> CASE a \in {"a1", "a2"} -> "instagram"
                          [] a = "a3"           -> "youtube"
                          [] OTHER              -> "tiktok"]
Platforms == {platform_of[a] : a \in Accounts}
IgAccounts == {a \in Accounts : platform_of[a] = "instagram"}
\* subscription_plans.posts_per_day of the rows of subscription_plans
posts_per_day == [p \in subscription_plans |-> IF p = 1 THEN 2 ELSE 1]
\* what a run has done: the platforms whose quota was exhausted at the check,
\* the units consumed, the lock acquisitions, the calls of the publish function,
\* the accounts whose publish completed as a success, the accounts that
\* ended in an exception, the count the limit check has seen, the status
\* written at the end, and the platforms of the units consumed, in order
NoRun == [exhausted |-> {}, consumed |-> 0, acquires |-> 0, calls |-> 0,
          published |-> {}, failed |-> {}, seen |-> 0, final |-> "none",
          charged |-> <<>>, started |-> {}]

\* the grouping that gives every account a group of its own
RECURSIVE group_by_account(_, _)
group_by_account(accounts, groups) ==
    IF accounts = <<>> THEN groups
    ELSE group_by_account(Tail(accounts),
            Append(groups, [platform |-> platform_of[Head(accounts)],
                            accounts |-> <<Head(accounts)>>]))

\* "GROUP accounts by platform": a dict in insertion order
RECURSIVE group_by_platform(_, _)
group_by_platform(accounts, groups) ==
    IF accounts = <<>> THEN groups
    ELSE LET acc == Head(accounts)
             at == {i \in DOMAIN groups : groups[i].platform = platform_of[acc]}
         IN  group_by_platform(Tail(accounts),
                IF at = {}
                THEN Append(groups, [platform |-> platform_of[acc], accounts |-> <<acc>>])
                ELSE [groups EXCEPT ![CHOOSE i \in at : TRUE].accounts = Append(@, acc)])

\* Celery: @celery_app.task(bind=True, max_retries=3, ...)
max_retries == 3
NoPost == [status |-> "absent", scheduled_time |-> NoTime, user_id |-> NULL,
           account_ids |-> <<>>]

Range(f) == {f[i] : i \in DOMAIN f}

\* SERIAL id of the next row of posts
NextPostId(ps) == CHOOSE p \in PostIds : ps[p].status = "absent" /\
                     \A q \in PostIds : q < p => ps[q].status # "absent"
HasFreePostId(ps) == \E p \in PostIds : ps[p].status = "absent"

\* add_post: ValueError on an empty list, a foreign-key violation on an account id
\* that is no row of accounts (both roll back and raise); else one row of posts in
\* status 'Pending' and one row of posts_accounts per account, committed.
add_post_raises(account_ids) ==
    account_ids = <<>> \/ \E i \in DOMAIN account_ids : account_ids[i] \notin Accounts

add_post(ps, user_id, account_ids, scheduled_time) ==
    [ps EXCEPT ![NextPostId(ps)] =
        [status |-> "Pending", scheduled_time |-> scheduled_time,
         user_id |-> user_id, account_ids |-> account_ids]]

\* The broker holds a bag of messages; the sequence is kept in one fixed order so
\* that a bag has one representation.
TaskLess(a, b) ==
    \/ a.post_id < b.post_id
    \/ a.post_id = b.post_id /\ a.eta < b.eta
    \/ a.post_id = b.post_id /\ a.eta = b.eta /\ a.retries < b.retries

Enqueue(q, t) ==
    LET k == Cardinality({i \in DOMAIN q : TaskLess(q[i], t)})
    IN  SubSeq(q, 1, k) \o <<t>> \o SubSeq(q, k + 1, Len(q))

Dequeue(q, i) == SubSeq(q, 1, i - 1) \o SubSeq(q, i + 1, Len(q))

Submit(q, post_id, eta) ==
    Enqueue(q, [post_id |-> post_id, eta |-> eta, retries |-> 0])

\* execute_scheduled_post.apply_async(args=[post_id], eta=scheduled_time) when a
\* scheduled time is given, execute_scheduled_post.delay(post_id) otherwise
SchedulePost(q, post_id, scheduled_time) ==
    IF scheduled_time # NoTime THEN Submit(q, post_id, scheduled_time)
                               ELSE Submit(q, post_id, 0)

\* ======================================================= payment webhook
\* str.lower() on the tokens the payloads carry
Lower(s) ==
    CASE s = "PAID"         -> "paid"
      [] s = "Successful"   -> "successful"
      [] s = "PAYMENT.PAID" -> "payment.paid"
      [] OTHER              -> s

\* the success conditions with the fields compared as they come
is_success_case_sensitive(status_raw, event) ==
    \/ status_raw \in {"paid", "success", "successful"}
    \/ event \in {"payment.success", "payment.paid"}

\* zeroid_webhook, "Normalize success conditions"
is_success(status_raw, event) ==
    LET by_status == IF status_raw # NULL
                     THEN Lower(status_raw) \in {"paid", "success", "successful"}
                     ELSE FALSE
    IN  IF event # NULL
        THEN by_status \/ Lower(event) \in {"payment.success", "payment.paid"}
        ELSE by_status

\* get_pending_post_payment(conn, reference): the post-payment intent of that
\* reference as committed, or nothing
get_pending_post_payment(ref) ==
    IF ref \in PostRefs THEN [status |-> payment_status[ref]] ELSE [status |-> NULL]

\* mark_post_payment_paid(conn, reference): one UPDATE ... WHERE status != 'paid'
\* RETURNING the row; TRUE when a row came back
mark_post_payment_paid(ref) ==
    ref \in PostRefs /\ payment_status[ref] # "paid"

\* mark_payment_paid with the guard on the status dropped
mark_payment_paid_unguarded(ref) ==
    ref \in SubRefs

\* mark_payment_paid(conn, zeroid_reference):
\*   UPDATE payment_intents SET status = 'paid'
\*   WHERE zeroid_reference = %s AND status != 'paid' RETURNING user_id, plan_id
\* TRUE when a row came back
mark_payment_paid(ref) ==
    ref \in SubRefs /\ payment_status[ref] # "paid"

\* .lower() on a value that is no str: AttributeError
lower_raises(v) == v \in NonText

\* "Normalize success conditions" as it runs: status_raw.lower() is called on
\* a truthy status, event.lower() on a truthy event unless the status already
\* gave success (the or short-circuits); then "if not is_success"
webhook_signal(status_raw, event) ==
    IF status_raw # NULL /\ lower_raises(status_raw) THEN "raises"
    ELSE IF event # NULL /\ lower_raises(event) /\ ~is_success(status_raw, NULL)
    THEN "raises"
    ELSE IF is_success(status_raw, event) THEN "success"
    ELSE "ignored"

\* what the status and event of the payloads whose fields are texts come to
PayloadSignals ==
    {webhook_signal(status_raw, event) : status_raw \in StatusValues \ NonText,
                                         event \in EventValues \ NonText}

NoPayload == [status |-> NULL, event |-> NULL, recorded |-> FALSE]

RowFree(ref) == ref \in IntentRefs => row_lock[ref] = 0

Finish(d, resp) ==
    /\ d_pc' = [d_pc EXCEPT ![d] = "done"]
    /\ d_resp' = [d_resp EXCEPT ![d] = resp]

\* lines 29-61: the payload is read, a missing reference is a 400, a payload that
\* signals no success is acknowledged as ignored; else the transaction opens and
\* the post-payment intent of the reference is looked up
Receive(d, reference, signal) ==
    /\ d_pc[d] = "idle"
    /\ d_ref' = [d_ref EXCEPT ![d] = reference]
    /\ IF reference = NULL
       THEN Finish(d, "400")
       ELSE IF signal = "raises"
       THEN Finish(d, "payload_error")
       ELSE IF signal = "ignored"
       THEN Finish(d, "ignored")
       ELSE /\ d_pc' = [d_pc EXCEPT ![d] =
                  IF get_pending_post_payment(reference).status = "pending"
                  THEN "mark_post" ELSE "mark_sub"]
            /\ d_resp' = d_resp
    /\ UNCHANGED <<payment_status, row_lock, user_subscriptions, d_snap, effects>>
    /\ UNCHANGED <<storeVars, postVars>>

\* a request with text fields, its payload taken by what the status and event
\* come to
WebhookReceive(d) ==
    /\ \E reference \in PayloadRefs, signal \in PayloadSignals :
          Receive(d, reference, signal)
    /\ UNCHANGED d_payload

\* a request, its payload taken field by field
WebhookPayload(d) ==
    \E reference \in PayloadRefs, status_raw \in StatusValues, event \in EventValues :
        /\ Receive(d, reference, webhook_signal(status_raw, event))
        /\ d_payload' = [d_payload EXCEPT ![d] =
                [status |-> status_raw, event |-> event, recorded |-> TRUE]]

\* lines 63-66: the paid transition of a post-payment intent.  The UPDATE waits
\* while another open transaction holds the row.
WebhookMarkPost(d) ==
    /\ d_pc[d] = "mark_post"
    /\ RowFree(d_ref[d])
    /\ IF mark_post_payment_paid(d_ref[d])
       THEN /\ row_lock' = [row_lock EXCEPT ![d_ref[d]] = d]
            /\ d_pc' = [d_pc EXCEPT ![d] = "materialize"]
            /\ d_resp' = d_resp
       ELSE /\ Finish(d, "duplicate")
            /\ row_lock' = row_lock
    /\ UNCHANGED <<payment_status, user_subscriptions, d_ref, d_payload, d_snap, effects>>
    /\ UNCHANGED <<storeVars, postVars>>

\* datetime.fromisoformat on the stored text: ValueError on a text that is no
\* ISO timestamp
fromisoformat_raises(scheduled_time) == scheduled_time = BadTime

\* lines 68-119: the stored scheduled_time is parsed, before the try: a
\* ValueError there leaves the with block as an exception, the transaction
\* rolls back and the request fails.  Then the post is created and scheduled;
\* an exception of add_post or of the submission is caught and reported in the
\* body, and leaving the with block commits the paid transition.
WebhookMaterialize(d) ==
    /\ d_pc[d] = "materialize"
    /\ LET ref == d_ref[d]
           row == PostIntents[ref]
           post_data == row.post_data
       IN  IF fromisoformat_raises(post_data.scheduled_time)
           THEN /\ Finish(d, "error500")
                /\ row_lock' = [row_lock EXCEPT ![ref] = 0]
                /\ UNCHANGED <<payment_status, posts, queue, effects, submissions>>
           ELSE
           /\ payment_status' = [payment_status EXCEPT ![ref] = "paid"]
           /\ row_lock' = [row_lock EXCEPT ![ref] = 0]
           /\ IF add_post_raises(post_data.account_ids)
              THEN /\ Finish(d, "post_failed")
                   /\ UNCHANGED <<posts, queue, effects, submissions>>
              ELSE /\ HasFreePostId(posts)
                   /\ posts' = add_post(posts, row.user_id, post_data.account_ids,
                                        post_data.scheduled_time)
                   /\ \E broker_up \in BOOLEAN :
                        IF broker_up
                        THEN /\ queue' = SchedulePost(queue, NextPostId(posts),
                                                      post_data.scheduled_time)
                             /\ submissions' = [submissions EXCEPT
                                    ![NextPostId(posts)] = [direct |-> 1, scheduler |-> 0]]
                             /\ effects' = [effects EXCEPT ![ref].posts = @ + 1,
                                                           ![ref].tasks = @ + 1]
                             /\ Finish(d, "post_payment")
                        ELSE /\ queue' = queue
                             /\ submissions' = submissions
                             /\ effects' = [effects EXCEPT ![ref].posts = @ + 1]
                             /\ Finish(d, "post_failed")
    /\ UNCHANGED <<user_subscriptions, d_ref, d_payload, d_snap>>
    /\ UNCHANGED <<clockVars, schedVars, workerVars, loopVars, ledgerVars, loopVars, ledgerVars>>

\* lines 121-126: the paid transition of a subscription intent
WebhookMarkSub(d) ==
    /\ d_pc[d] = "mark_sub"
    /\ RowFree(d_ref[d])
    /\ IF mark_payment_paid(d_ref[d])
       THEN /\ row_lock' = [row_lock EXCEPT ![d_ref[d]] = d]
            /\ d_pc' = [d_pc EXCEPT ![d] = "deactivate"]
            /\ d_resp' = d_resp
       ELSE /\ Finish(d, "duplicate")
            /\ row_lock' = row_lock
    /\ UNCHANGED <<payment_status, user_subscriptions, d_ref, d_payload, d_snap, effects>>
    /\ UNCHANGED <<storeVars, postVars>>

\* activate_subscription_for_user, first statement:
\*   UPDATE user_subscriptions SET is_active = FALSE WHERE user_id = %s
\* It finds the rows of the user that are committed when it starts; the change
\* is part of the open transaction.  (A row another open transaction has
\* deactivated makes the statement wait; the wait changes no outcome, every
\* writer sets the same value, and is left out.)
RowsOfUser(subs, user_id) == {i \in DOMAIN subs : subs[i].user_id = user_id}

ActivateDeactivate(d) ==
    /\ d_pc[d] = "deactivate"
    /\ d_snap' = [d_snap EXCEPT ![d] =
            RowsOfUser(user_subscriptions, SubscriptionIntents[d_ref[d]].user_id)]
    /\ d_pc' = [d_pc EXCEPT ![d] = "insert"]
    /\ UNCHANGED <<payment_status, row_lock, user_subscriptions, d_ref, d_resp, effects>>
    /\ UNCHANGED d_payload
    /\ UNCHANGED <<storeVars, postVars>>

\* activate_subscription_for_user, the plan lookup and the INSERT, then the end of
\* the with block: a plan that does not exist raises ValueError and the
\* transaction rolls back (the intent stays pending, no row changes); else the
\* transaction commits the paid status, the deactivations and the new active row.
Deactivated(subs, rows) ==
    [i \in DOMAIN subs |-> IF i \in rows THEN [subs[i] EXCEPT !.is_active = FALSE]
                                       ELSE subs[i]]

\* the same with the UPDATE of mark_payment_paid committed on its own before the
\* activation starts: the ValueError then rolls back the activation only
ActivateInsert_after_own_commit(d) ==
    /\ d_pc[d] = "insert"
    /\ LET ref == d_ref[d]
           row == SubscriptionIntents[ref]
       IN  IF row.plan_id \notin subscription_plans
           THEN /\ Finish(d, "error500")
                /\ row_lock' = [row_lock EXCEPT ![ref] = 0]
                /\ payment_status' = [payment_status EXCEPT ![ref] = "paid"]
                /\ UNCHANGED <<user_subscriptions, effects>>
           ELSE /\ Finish(d, "subscription_payment")
                /\ row_lock' = [row_lock EXCEPT ![ref] = 0]
                /\ payment_status' = [payment_status EXCEPT ![ref] = "paid"]
                /\ user_subscriptions' =
                      Append(Deactivated(user_subscriptions, d_snap[d]),
                             [user_id |-> row.user_id, plan_id |-> row.plan_id,
                              is_active |-> TRUE])
                /\ effects' = [effects EXCEPT ![ref].activations = @ + 1]
    /\ d_snap' = [d_snap EXCEPT ![d] = {}]
    /\ UNCHANGED <<d_ref, d_payload>>
    /\ UNCHANGED <<storeVars, postVars>>

ActivateInsertCommit(d) ==
    /\ d_pc[d] = "insert"
    /\ LET ref == d_ref[d]
           row == SubscriptionIntents[ref]
       IN  IF row.plan_id \notin subscription_plans
           THEN /\ Finish(d, "error500")
                /\ row_lock' = [row_lock EXCEPT ![ref] = 0]
                /\ UNCHANGED <<payment_status, user_subscriptions, effects>>
           ELSE /\ Finish(d, "subscription_payment")
                /\ row_lock' = [row_lock EXCEPT ![ref] = 0]
                /\ payment_status' = [payment_status EXCEPT ![ref] = "paid"]
                /\ user_subscriptions' =
                      Append(Deactivated(user_subscriptions, d_snap[d]),
                             [user_id |-> row.user_id, plan_id |-> row.plan_id,
                              is_active |-> TRUE])
                /\ effects' = [effects EXCEPT ![ref].activations = @ + 1]
    /\ d_snap' = [d_snap EXCEPT ![d] = {}]
    /\ UNCHANGED <<d_ref, d_payload>>
    /\ UNCHANGED <<storeVars, postVars>>

NoEffects == [activations |-> 0, posts |-> 0, tasks |-> 0]

InitPay ==
    /\ payment_status = [r \in IntentRefs |-> "pending"]
    /\ row_lock = [r \in IntentRefs |-> 0]
    /\ user_subscriptions = <<[user_id |-> "u2", plan_id |-> 2, is_active |-> TRUE]>>
    /\ d_pc = [d \in Deliveries |-> "idle"]
    /\ d_ref = [d \in Deliveries |-> NULL]
    /\ d_resp = [d \in Deliveries |-> "none"]
    /\ d_payload = [d \in Deliveries |-> NoPayload]
    /\ d_snap = [d \in Deliveries |-> {}]
    /\ effects = [r \in IntentRefs |-> NoEffects]

InitStore ==
    /\ posts = [p \in PostIds |-> NoPost]
    /\ queue = <<>>

InitPost ==
    /\ now = 0
    /\ api_calls = 0
    /\ sched_pc = [s \in Schedulers |-> "sleep"]
    /\ due_posts = [s \in Schedulers |-> <<>>]
    /\ w_pc = [w \in Workers |-> "idle"]
    /\ w_task = [w \in Workers |-> NoTask]
    /\ any_success = [w \in Workers |-> FALSE]
    /\ submissions = [p \in PostIds |-> NoSubmissions]

InitExec ==
    /\ w_groups = [w \in Workers |-> <<>>]
    /\ w_gi = [w \in Workers |-> 1]
    /\ w_ai = [w \in Workers |-> 1]
    /\ w_attempt = [w \in Workers |-> 1]
    /\ w_outcome = [w \in Workers |-> "none"]
    /\ w_cs = [w \in Workers |-> "out"]
    /\ w_run = [w \in Workers |-> NoRun]
    /\ usage_counters = [u \in Users |-> [pl \in Platforms |-> 0]]
    /\ redis_lock = [a \in IgAccounts |-> "free"]
    /\ overtaken = [u \in Users |-> [pl \in Platforms |-> FALSE]]

NextPay ==
    \E d \in Deliveries :
        \/ WebhookReceive(d)
        \/ WebhookMarkPost(d)
        \/ WebhookMaterialize(d)
        \/ WebhookMarkSub(d)
        \/ ActivateDeactivate(d)
        \/ ActivateInsertCommit(d)

PayInit == InitPay /\ InitStore /\ InitPost /\ InitExec

SpecPay == PayInit /\ [][NextPay]_vars

\* ---- one request, its payload field by field
HookDeliveries == {1}

NextHook ==
    \E d \in HookDeliveries :
        \/ WebhookPayload(d)
        \/ WebhookMarkPost(d)
        \/ WebhookMaterialize(d)
        \/ WebhookMarkSub(d)
        \/ ActivateDeactivate(d)
        \/ ActivateInsertCommit(d)

HookInit == InitPay /\ InitStore /\ InitPost /\ InitExec

SpecHook == HookInit /\ [][NextHook]_vars

\* ========================================================== post pipeline
\* ---- posts API
ApiBudget == api_calls < MaxApiCalls

CountDirect(subs, post_id) ==
    [subs EXCEPT ![post_id] = [direct |-> 1, scheduler |-> 0]]

\* create_post: the account list is never empty here (400 otherwise); add_post
\* inserts the row in status 'Pending', then the task is submitted with the
\* scheduled time as eta, or at once
create_post(user_id, account_ids, scheduled_time) ==
    /\ ApiBudget
    /\ HasFreePostId(posts)
    /\ ~add_post_raises(account_ids)
    /\ posts' = add_post(posts, user_id, account_ids, scheduled_time)
    /\ queue' = SchedulePost(queue, NextPostId(posts), scheduled_time)
    /\ submissions' = CountDirect(submissions, NextPostId(posts))
    /\ api_calls' = api_calls + 1
    /\ UNCHANGED <<now, schedVars, workerVars, loopVars, ledgerVars, payVars>>

\* execute_post_now and retry_post_execution: the task is submitted for whatever
\* id the path carries
execute_post_now(post_id) ==
    /\ ApiBudget
    /\ queue' = Submit(queue, post_id, 0)
    /\ api_calls' = api_calls + 1
    /\ UNCHANGED <<posts, now, schedVars, workerVars, loopVars, ledgerVars, submissions, payVars>>

\* cancel_post: 404 without a row; else status and scheduled_time are overwritten
cancel_post(post_id) ==
    /\ ApiBudget
    /\ posts[post_id].status # "absent"
    /\ posts' = [posts EXCEPT ![post_id].status = "cancelled",
                              ![post_id].scheduled_time = NoTime]
    /\ api_calls' = api_calls + 1
    /\ UNCHANGED <<queue, now, schedVars, workerVars, loopVars, ledgerVars, submissions, payVars>>

\* reschedule_post: 404 without a row; else scheduled_time and status are overwritten
reschedule_post(post_id, scheduled_time) ==
    /\ ApiBudget
    /\ posts[post_id].status # "absent"
    /\ posts' = [posts EXCEPT ![post_id].status = "Pending",
                              ![post_id].scheduled_time = scheduled_time]
    /\ submissions' = [submissions EXCEPT ![post_id] = NoSubmissions]
    /\ api_calls' = api_calls + 1
    /\ UNCHANGED <<queue, now, schedVars, workerVars, loopVars, ledgerVars, payVars>>

\* a reset that clears the schedule as well, the way the cancel request does
reset_post_clearing_schedule(ps, post_id) ==
    [ps EXCEPT ![post_id].status = "Pending", ![post_id].scheduled_time = NoTime]

\* reset_post_for_repost: UPDATE posts SET status = 'Pending' WHERE id = %s
reset_post_for_repost(ps, post_id) == [ps EXCEPT ![post_id].status = "Pending"]

\* repost_failed_post: 404 without a row; else the reset, then the submission
repost_failed_post(post_id) ==
    /\ ApiBudget
    /\ posts[post_id].status # "absent"
    /\ posts' = reset_post_for_repost(posts, post_id)
    /\ queue' = Submit(queue, post_id, 0)
    /\ submissions' = CountDirect(submissions, post_id)
    /\ api_calls' = api_calls + 1
    /\ UNCHANGED <<now, schedVars, workerVars, loopVars, ledgerVars, payVars>>

\* ---- time
Tick ==
    /\ now < MaxTime
    /\ now' = now + 1
    /\ UNCHANGED <<api_calls, storeVars, schedVars, workerVars, loopVars, ledgerVars, submissions, payVars>>

\* ---- scheduler loop
\* the WHERE clause without the condition on the status
IsDue_any_status(ps, p, t) ==
    /\ ps[p].status \notin {"absent", "posted"}
    /\ ps[p].scheduled_time # NoTime
    /\ ps[p].scheduled_time <= t

IsDue(ps, p, t) ==
    /\ ps[p].status = "Pending"
    /\ ps[p].scheduled_time # NoTime
    /\ ps[p].scheduled_time <= t

Earlier(ps, p, q) ==
    \/ ps[p].scheduled_time < ps[q].scheduled_time
    \/ ps[p].scheduled_time = ps[q].scheduled_time /\ p < q

RECURSIVE SortedByTime(_, _)
SortedByTime(ps, S) ==
    IF S = {} THEN <<>>
    ELSE LET first == CHOOSE p \in S : \A q \in S \ {p} : Earlier(ps, p, q)
         IN  <<first>> \o SortedByTime(ps, S \ {first})

\* get_due_posts: status 'Pending', a scheduled time, not in the future; ordered
\* by scheduled time
get_due_posts(ps, t) == SortedByTime(ps, {p \in PostIds : IsDue(ps, p, t)})

\* update_post_status: UPDATE posts SET status = %s WHERE id = %s
update_post_status(ps, post_id, status) == [ps EXCEPT ![post_id].status = status]

\* _check_and_dispatch up to the loop: the due posts are read; none ends the cycle
SchedulerPoll(s) ==
    /\ sched_pc[s] = "sleep"
    /\ LET due == get_due_posts(posts, now)
       IN  /\ due # <<>>
           /\ due_posts' = [due_posts EXCEPT ![s] = due]
           /\ sched_pc' = [sched_pc EXCEPT ![s] = "dispatch"]
    /\ UNCHANGED <<storeVars, clockVars, workerVars, loopVars, ledgerVars, submissions, payVars>>

\* the loop body without its try/except: an exception of either call leaves the
\* for loop and ends the cycle in the handler of start()
SchedulerDispatch_abort_on_error(s) ==
    /\ sched_pc[s] = "dispatch"
    /\ LET post_id == Head(due_posts[s])
           rest == Tail(due_posts[s])
       IN  \E outcome \in {"ok", "update_raises", "submit_raises"} :
              LET left == IF outcome = "ok" THEN rest ELSE <<>>
              IN  /\ CASE outcome = "ok" ->
                             /\ posts' = update_post_status(posts, post_id, "queued")
                             /\ queue' = Submit(queue, post_id, 0)
                             /\ submissions' = [submissions EXCEPT
                                                   ![post_id].scheduler = @ + 1]
                        [] outcome = "update_raises" ->
                             UNCHANGED <<posts, queue, submissions>>
                        [] outcome = "submit_raises" ->
                             /\ posts' = update_post_status(posts, post_id, "queued")
                             /\ UNCHANGED <<queue, submissions>>
                  /\ due_posts' = [due_posts EXCEPT ![s] = left]
                  /\ sched_pc' = [sched_pc EXCEPT ![s] = IF left = <<>> THEN "sleep"
                                                         ELSE "dispatch"]
    /\ UNCHANGED <<clockVars, workerVars, loopVars, ledgerVars, payVars>>

\* one pass of the loop body: the status is set, then the task is submitted; an
\* exception of either call is logged and the loop goes on with the next post
SchedulerDispatch(s) ==
    /\ sched_pc[s] = "dispatch"
    /\ LET post_id == Head(due_posts[s])
           rest == Tail(due_posts[s])
       IN  /\ \E outcome \in {"ok", "update_raises", "submit_raises"} :
                 CASE outcome = "ok" ->
                        /\ posts' = update_post_status(posts, post_id, "queued")
                        /\ queue' = Submit(queue, post_id, 0)
                        /\ submissions' = [submissions EXCEPT
                                              ![post_id].scheduler = @ + 1]
                   [] outcome = "update_raises" ->
                        UNCHANGED <<posts, queue, submissions>>
                   [] outcome = "submit_raises" ->
                        /\ posts' = update_post_status(posts, post_id, "queued")
                        /\ UNCHANGED <<queue, submissions>>
           /\ due_posts' = [due_posts EXCEPT ![s] = rest]
           /\ sched_pc' = [sched_pc EXCEPT ![s] = IF rest = <<>> THEN "sleep"
                                                  ELSE "dispatch"]
    /\ UNCHANGED <<clockVars, workerVars, loopVars, ledgerVars, payVars>>

\* ---- Celery task execute_scheduled_post and execute_post
Deliverable(q, t) == {i \in DOMAIN q : q[i].eta <= t}

\* self.retry(exc=exc): the message goes back with one more retry while the
\* task has retries left; otherwise the exception ends the task
retry(q, task, t) ==
    IF task.retries < max_retries
    THEN Enqueue(q, [task EXCEPT !.retries = @ + 1, !.eta = t])
    ELSE q

\* A worker takes a message whose eta has come.  No row of posts: post.keys() on
\* None raises and the task retries.  A row without user: status failed, return.
\* Otherwise status processing, and the accounts of the post are read; none is
\* the RuntimeError of the fatal path.
TaskRun(w) ==
    /\ w_pc[w] = "idle"
    /\ \E i \in Deliverable(queue, now) :
          LET task == queue[i]
              post == IF task.post_id \in PostIds THEN posts[task.post_id] ELSE NoPost
              rest == Dequeue(queue, i)
          IN  IF post.status = "absent"
              THEN /\ queue' = retry(rest, task, now)
                   /\ UNCHANGED <<posts, workerVars, loopVars>>
              ELSE IF post.user_id = NULL
              THEN /\ posts' = update_post_status(posts, task.post_id, "failed")
                   /\ queue' = rest
                   /\ UNCHANGED <<workerVars, loopVars>>
              ELSE /\ posts' = update_post_status(posts, task.post_id, "processing")
                   /\ queue' = rest
                   /\ w_task' = [w_task EXCEPT ![w] = task]
                   /\ any_success' = [any_success EXCEPT ![w] = FALSE]
                   /\ w_pc' = [w_pc EXCEPT ![w] =
                                 IF post.account_ids = <<>> THEN "fatal" ELSE "loop"]
                   /\ w_groups' = [w_groups EXCEPT ![w] =
                                     group_by_platform(post.account_ids, <<>>)]
                   /\ w_gi' = [w_gi EXCEPT ![w] = 1]
                   /\ w_ai' = [w_ai EXCEPT ![w] = 1]
                   /\ w_attempt' = [w_attempt EXCEPT ![w] = 1]
                   /\ w_outcome' = [w_outcome EXCEPT ![w] = "none"]
                   /\ w_run' = [w_run EXCEPT ![w] = NoRun]
                   /\ UNCHANGED w_cs
    /\ UNCHANGED <<clockVars, schedVars, submissions, ledgerVars, payVars>>

\* the loop over platforms and accounts, seen from outside: it ends with or
\* without a success
ExecLoop(w) ==
    /\ w_pc[w] = "loop"
    /\ \E outcome \in {"success", "no_success"} :
          /\ any_success' = [any_success EXCEPT ![w] = (outcome = "success")]
          /\ w_pc' = [w_pc EXCEPT ![w] = "final"]
    /\ UNCHANGED <<w_task, storeVars, clockVars, schedVars, submissions, payVars>>
    /\ UNCHANGED <<loopVars, ledgerVars>>

\* the final status written whatever the accounts did
final_status_ignoring(success) == "posted"

\* "Final post status"
final_status(success) == IF success THEN "posted" ELSE "failed"

ExecFinal(w) ==
    /\ w_pc[w] = "final"
    /\ posts' = update_post_status(posts, w_task[w].post_id,
                                   final_status(any_success[w]))
    /\ w_pc' = [w_pc EXCEPT ![w] = "idle"]
    /\ w_run' = [w_run EXCEPT ![w].final = final_status(any_success[w])]
    /\ UNCHANGED <<queue, w_task, any_success, clockVars, schedVars, submissions>>
    /\ UNCHANGED <<w_groups, w_gi, w_ai, w_attempt, w_outcome, w_cs, ledgerVars, payVars>>

\* execute_post without the status write of its outer except: the exception
\* goes to the task with the row as the run left it
ExecFatal_without_write(w) ==
    /\ w_pc[w] = "fatal"
    /\ queue' = retry(queue, w_task[w], now)
    /\ w_pc' = [w_pc EXCEPT ![w] = "idle"]
    /\ w_run' = [w_run EXCEPT ![w].final = "failed"]
    /\ UNCHANGED <<posts, w_task, any_success, clockVars, schedVars, submissions>>
    /\ UNCHANGED <<w_groups, w_gi, w_ai, w_attempt, w_outcome, w_cs, ledgerVars, payVars>>

\* the outer except of execute_post: status failed, the exception is raised
\* again and the task retries.  A post whose accounts are all gone is what leads
\* here; no post of the specifications below loses its accounts.
ExecFatal(w) ==
    /\ w_pc[w] = "fatal"
    /\ posts' = update_post_status(posts, w_task[w].post_id, "failed")
    /\ queue' = retry(queue, w_task[w], now)
    /\ w_pc' = [w_pc EXCEPT ![w] = "idle"]
    /\ w_run' = [w_run EXCEPT ![w].final = "failed"]
    /\ UNCHANGED <<w_task, any_success, clockVars, schedVars, submissions>>
    /\ UNCHANGED <<w_groups, w_gi, w_ai, w_attempt, w_outcome, w_cs, ledgerVars, payVars>>

AccountChoices == {<<"a1", "a3">>}
ScheduleChoices == {NoTime} \cup (1..MaxTime)

NextPost ==
    \/ \E account_ids \in AccountChoices, scheduled_time \in ScheduleChoices :
          create_post("u1", account_ids, scheduled_time)
    \/ \E post_id \in PostIds : execute_post_now(post_id)
    \/ \E post_id \in PostIds : cancel_post(post_id)
    \/ \E post_id \in PostIds, scheduled_time \in 1..MaxTime :
          reschedule_post(post_id, scheduled_time)
    \/ \E post_id \in PostIds : repost_failed_post(post_id)
    \/ Tick
    \/ \E s \in Schedulers : SchedulerPoll(s) \/ SchedulerDispatch(s)
    \/ \E w \in Workers : TaskRun(w) \/ ExecLoop(w) \/ ExecFinal(w)

PostInit == InitPay /\ InitStore /\ InitPost /\ InitExec

SpecPost == PostInit /\ [][NextPost]_vars

\* ================================================== execute_post, in detail
CurrentGroup(w) == w_groups[w][w_gi[w]]
CurrentAccount(w) == CurrentGroup(w).accounts[w_ai[w]]
PostUser(w) == posts[w_task[w].post_id].user_id

\* the end of one account's iteration: the next account of the group, else the
\* next platform group, else the final status
NextAccount(w) ==
    IF w_ai[w] < Len(CurrentGroup(w).accounts)
    THEN /\ w_ai' = [w_ai EXCEPT ![w] = @ + 1]
         /\ w_pc' = [w_pc EXCEPT ![w] = "account"]
         /\ w_gi' = w_gi
    ELSE /\ w_ai' = [w_ai EXCEPT ![w] = 1]
         /\ w_gi' = [w_gi EXCEPT ![w] = IF @ < Len(w_groups[w]) THEN @ + 1 ELSE @]
         /\ w_pc' = [w_pc EXCEPT ![w] =
                       IF w_gi[w] < Len(w_groups[w]) THEN "loop" ELSE "final"]

NextGroup(w) ==
    /\ w_gi' = [w_gi EXCEPT ![w] = IF @ < Len(w_groups[w]) THEN @ + 1 ELSE @]
    /\ w_pc' = [w_pc EXCEPT ![w] = IF w_gi[w] < Len(w_groups[w]) THEN "loop" ELSE "final"]

\* an exception of the account's iteration that nothing catches before the
\* outer except of execute_post
account_failure_uncaught(w, run) ==
    /\ w_run' = [w_run EXCEPT ![w] =
                    [run EXCEPT !.failed = @ \cup {CurrentAccount(w)}]]
    /\ w_pc' = [w_pc EXCEPT ![w] = "fatal"]
    /\ UNCHANGED <<w_gi, w_ai>>

\* except Exception as account_exc: the failure is logged and the account loop
\* goes on
account_failure(w, run) ==
    /\ w_run' = [w_run EXCEPT ![w] =
                    [run EXCEPT !.failed = @ \cup {CurrentAccount(w)}]]
    /\ NextAccount(w)

\* ---- usage ledger
\* get_active_subscription: the plans of the user's active rows
ActivePlans(subs, user_id) ==
    {subs[i].plan_id : i \in {j \in DOMAIN subs : /\ subs[j].user_id = user_id
                                                  /\ subs[j].is_active
                                                  /\ subs[j].plan_id \in subscription_plans}}

\* the comparison of check_daily_limit with the bound itself let through
limit_reached_above(usage, plan_id) == usage > posts_per_day[plan_id]

\* check_daily_limit never raising on the count
limit_never_reached(usage, plan_id) == FALSE

\* check_daily_limit: usage[action + "s"] >= limits[action]
limit_reached(usage, plan_id) == usage >= posts_per_day[plan_id]

\* the ledger as it stands: no active plan, or the day's count is at the limit
QuotaExhausted(user_id, pl) ==
    \A plan_id \in ActivePlans(user_subscriptions, user_id) :
        usage_counters[user_id][pl] >= posts_per_day[plan_id]

\* check_daily_limit inside check_and_consume_limit; PermissionError skips the group
CheckLimit(w) ==
    /\ w_pc[w] = "loop"
    /\ LET user_id == PostUser(w)
           pl == CurrentGroup(w).platform
           plans == ActivePlans(user_subscriptions, user_id)
           usage == usage_counters[user_id][pl]
       IN  /\ w_run' = [w_run EXCEPT
                  ![w].exhausted = IF QuotaExhausted(user_id, pl) THEN @ \cup {pl} ELSE @,
                  ![w].seen = usage]
           /\ IF plans = {}
              THEN NextGroup(w)
              ELSE \E plan_id \in plans :
                      IF limit_reached(usage, plan_id)
                      THEN NextGroup(w)
                      ELSE /\ w_pc' = [w_pc EXCEPT ![w] = "consume"]
                           /\ w_gi' = w_gi
    /\ UNCHANGED <<w_task, any_success, w_groups, w_ai, w_attempt, w_outcome, w_cs>>
    /\ UNCHANGED <<storeVars, clockVars, schedVars, submissions, ledgerVars, payVars>>

\* consume_daily_limit: the upsert, the increment, the commit
ConsumeLimit(w) ==
    /\ w_pc[w] = "consume"
    /\ LET user_id == PostUser(w)
           pl == CurrentGroup(w).platform
       IN  /\ usage_counters' = [usage_counters EXCEPT ![user_id][pl] = @ + 1]
           /\ w_run' = [w_run EXCEPT ![w].consumed = @ + 1,
                                     ![w].charged = Append(@, pl)]
           \* a consumption on a check that another consumption has overtaken
           /\ overtaken' = [overtaken EXCEPT ![user_id][pl] =
                                @ \/ usage_counters[user_id][pl] # w_run[w].seen]
    /\ w_ai' = [w_ai EXCEPT ![w] = 1]
    /\ w_pc' = [w_pc EXCEPT ![w] = "account"]
    /\ UNCHANGED <<w_task, any_success, w_groups, w_gi, w_attempt, w_outcome, w_cs>>
    /\ UNCHANGED <<storeVars, clockVars, schedVars, submissions, redis_lock, payVars>>

\* ---- retry wrapper
MAX_RETRIES == 3

\* _execute_with_retries with the validation error handled like any exception
execute_with_retries_no_special_case(outcome, attempt, max_attempts) ==
    CASE outcome = "ok"          -> "return"
      [] attempt < max_attempts  -> "sleep"
      [] OTHER                   -> "raise"

\* the wrapper with the loop running one attempt too far
execute_with_retries_one_more(outcome, attempt, max_attempts) ==
    CASE outcome = "ok"          -> "return"
      [] outcome = "validation"  -> "return"
      [] attempt <= max_attempts -> "sleep"
      [] OTHER                   -> "raise"

\* _execute_with_retries, what follows the attempt-th call of func: a normal
\* return, the ValidationError taken as success, a sleep before the next
\* attempt, or the last exception raised
execute_with_retries(outcome, attempt, max_attempts) ==
    CASE outcome = "ok"          -> "return"
      [] outcome = "validation"  -> "return"
      [] attempt < max_attempts  -> "sleep"
      [] OTHER                   -> "raise"

\* the account's iteration after a call of func has ended with that outcome;
\* run is the record of the run with that call counted
AfterCall(w, outcome, run) ==
    LET then == execute_with_retries(outcome, w_attempt[w], MAX_RETRIES)
    IN  CASE then = "return" ->
               /\ any_success' = [any_success EXCEPT ![w] = TRUE]
               /\ w_run' = [w_run EXCEPT ![w] = run]
               /\ NextAccount(w)
          [] then = "sleep" ->
               /\ w_pc' = [w_pc EXCEPT ![w] = "sleep"]
               /\ w_run' = [w_run EXCEPT ![w] = run]
               /\ UNCHANGED <<any_success, w_gi, w_ai>>
          [] then = "raise" ->
               /\ account_failure(w, run)
               /\ UNCHANGED any_success

\* time.sleep(delay_seconds), then the next attempt
Sleep(w) ==
    /\ w_pc[w] = "sleep"
    /\ w_attempt' = [w_attempt EXCEPT ![w] = @ + 1]
    /\ w_pc' = [w_pc EXCEPT ![w] =
                  IF CurrentGroup(w).platform = "instagram" THEN "ig_acquire"
                  ELSE "yt_publish"]
    /\ UNCHANGED <<w_task, any_success, w_groups, w_gi, w_ai, w_outcome, w_cs, w_run>>
    /\ UNCHANGED <<storeVars, clockVars, schedVars, submissions, ledgerVars, payVars>>

\* ---- one account
\* the body of the account loop up to the first call: instagram goes into the
\* wrapper; youtube needs a token (none is an exception of this account);
\* any other platform is logged as unsupported
AccountStart(w) ==
    /\ w_pc[w] = "account"
    /\ w_attempt' = [w_attempt EXCEPT ![w] = 1]
    /\ w_outcome' = [w_outcome EXCEPT ![w] = "none"]
    /\ LET pl == CurrentGroup(w).platform
           run == [w_run[w] EXCEPT !.started = @ \cup {CurrentAccount(w)}]
       IN  CASE pl = "instagram" ->
                  /\ w_pc' = [w_pc EXCEPT ![w] = "ig_acquire"]
                  /\ w_run' = [w_run EXCEPT ![w] = run]
                  /\ UNCHANGED <<w_gi, w_ai>>
             [] pl = "youtube" ->
                  \E creds \in BOOLEAN :
                     IF creds
                     THEN /\ w_pc' = [w_pc EXCEPT ![w] = "yt_publish"]
                          /\ w_run' = [w_run EXCEPT ![w] = run]
                          /\ UNCHANGED <<w_gi, w_ai>>
                     ELSE account_failure(w, run)
             [] OTHER ->
                  /\ NextAccount(w)
                  /\ w_run' = [w_run EXCEPT ![w] = run]
    /\ UNCHANGED <<w_task, any_success, w_groups, w_cs>>
    /\ UNCHANGED <<storeVars, clockVars, schedVars, submissions, ledgerVars, payVars>>

\* ---- instagram: the account lock around the publish
\* redis SET key value NX EX ttl applied to the key as it stands
set_overwriting(value) == TRUE

set_nx(value) == value = "free"

Counted(run) == [run EXCEPT !.calls = @ + 1, !.acquires = @ + 1]

\* _post_to_instagram up to the try: lock.acquire() sets the key, or waits its
\* 30 s out on a held key and RuntimeError ends the call, or a RedisError makes
\* it return True without the key
IgAcquire(w) ==
    /\ w_pc[w] = "ig_acquire"
    /\ LET a == CurrentAccount(w)
       IN  \E result \in {"acquired", "timeout", "redis_error"} :
              CASE result = "acquired" ->
                     /\ set_nx(redis_lock[a])
                     /\ redis_lock' = [redis_lock EXCEPT ![a] = w]
                     /\ w_cs' = [w_cs EXCEPT ![w] = "nx"]
                     /\ w_pc' = [w_pc EXCEPT ![w] = "ig_publish"]
                     /\ w_run' = [w_run EXCEPT ![w] = Counted(@)]
                     /\ UNCHANGED <<any_success, w_gi, w_ai, w_outcome>>
                [] result = "timeout" ->
                     /\ ~set_nx(redis_lock[a])
                     /\ w_outcome' = [w_outcome EXCEPT ![w] = "error"]
                     /\ AfterCall(w, "error", Counted(w_run[w]))
                     /\ UNCHANGED <<redis_lock, w_cs>>
                [] result = "redis_error" ->
                     /\ w_cs' = [w_cs EXCEPT ![w] = "fail_open"]
                     /\ w_pc' = [w_pc EXCEPT ![w] = "ig_publish"]
                     /\ w_run' = [w_run EXCEPT ![w] = Counted(@)]
                     /\ UNCHANGED <<redis_lock, any_success, w_gi, w_ai, w_outcome>>
    /\ UNCHANGED <<w_task, w_groups, w_attempt, usage_counters, overtaken>>
    /\ UNCHANGED <<storeVars, clockVars, schedVars, submissions, payVars>>

Published(run, a, outcome) ==
    IF outcome \in {"ok", "validation"} THEN [run EXCEPT !.published = @ \cup {a}]
    ELSE run

\* The value of the key is the lock value (uuid) of one call of
\* _post_to_instagram: the worker's name while that call is under way,
\* EndedCall once the call that set it is over.
EndedCall == "ended_call"

\* except redis.RedisError in lock.release(): the error of get or delete is
\* logged and release returns; the key stays as it is, and when it carried the
\* lock value of this call it now carries the value of a call that has ended
release_failed(lock, a, w) ==
    IF lock[a] = w THEN [lock EXCEPT ![a] = EndedCall] ELSE lock

\* the try block and the first half of lock.release(): the publish ends well,
\* with the ValidationError or with another exception; then the key is read
\* (or the read meets a RedisError) and compared with the lock value of this
\* call
IgPublish(w) ==
    /\ w_pc[w] = "ig_publish"
    /\ LET a == CurrentAccount(w)
       IN  \E outcome \in {"ok", "validation", "error"},
              get \in {"value", "redis_error"} :
              /\ w_outcome' = [w_outcome EXCEPT ![w] = outcome]
              /\ IF get = "value" /\ redis_lock[a] = w
                 THEN /\ w_pc' = [w_pc EXCEPT ![w] = "ig_release"]
                      /\ w_run' = [w_run EXCEPT ![w] = Published(@, a, outcome)]
                      /\ UNCHANGED <<any_success, w_gi, w_ai, w_cs, redis_lock>>
                 ELSE /\ w_cs' = [w_cs EXCEPT ![w] = "out"]
                      /\ redis_lock' = release_failed(redis_lock, a, w)
                      /\ AfterCall(w, outcome, Published(w_run[w], a, outcome))
    /\ UNCHANGED <<w_task, w_groups, w_attempt, usage_counters, overtaken>>
    /\ UNCHANGED <<storeVars, clockVars, schedVars, submissions, payVars>>

\* the second half of lock.release(): redis_client.delete(self.key), or the
\* RedisError of the delete
IgRelease(w) ==
    /\ w_pc[w] = "ig_release"
    /\ LET a == CurrentAccount(w)
       IN  \E delete \in {"deleted", "redis_error"} :
              IF delete = "deleted"
              THEN /\ redis_lock' = [redis_lock EXCEPT ![a] = "free"]
                   /\ w_cs' = [v \in Workers |->
                                 IF v = w THEN "out"
                                 ELSE IF redis_lock[a] = v /\ w_cs[v] = "nx"
                                      THEN "lost"
                                 ELSE w_cs[v]]
              ELSE /\ redis_lock' = release_failed(redis_lock, a, w)
                   /\ w_cs' = [w_cs EXCEPT ![w] = "out"]
    /\ AfterCall(w, w_outcome[w], w_run[w])
    /\ UNCHANGED <<w_task, w_groups, w_attempt, w_outcome, usage_counters, overtaken>>
    /\ UNCHANGED <<storeVars, clockVars, schedVars, submissions, payVars>>

\* SET NX without EX: a key that is never removed by the lock service
Expire_without_ttl(a) ==
    /\ redis_lock[a] # "free"
    /\ UNCHANGED vars

\* the key outlives its ttl_seconds
Expire(a) ==
    /\ redis_lock[a] # "free"
    /\ redis_lock' = [redis_lock EXCEPT ![a] = "free"]
    /\ w_cs' = [v \in Workers |->
                  IF redis_lock[a] = v /\ w_cs[v] = "nx" THEN "lost" ELSE w_cs[v]]
    /\ UNCHANGED <<w_groups, w_gi, w_ai, w_attempt, w_outcome, w_run>>
    /\ UNCHANGED <<usage_counters, overtaken>>
    /\ UNCHANGED <<storeVars, clockVars, schedVars, workerVars, submissions, payVars>>

\* ---- youtube: the upload inside the wrapper, no lock
YtPublish(w) ==
    /\ w_pc[w] = "yt_publish"
    /\ \E outcome \in {"ok", "validation", "error"} :
          /\ w_outcome' = [w_outcome EXCEPT ![w] = outcome]
          /\ AfterCall(w, outcome,
                       Published([w_run[w] EXCEPT !.calls = @ + 1],
                                 CurrentAccount(w), outcome))
    /\ UNCHANGED <<w_task, w_groups, w_attempt, w_cs, ledgerVars>>
    /\ UNCHANGED <<storeVars, clockVars, schedVars, submissions, payVars>>

ExecAccountChoices == {<<"a1">>, <<"a2", "a3", "a1">>, <<"a3", "a4">>}

NextExec ==
    \/ \E user_id \in Users, account_ids \in ExecAccountChoices :
          create_post(user_id, account_ids, NoTime)
    \/ \E w \in Workers :
          \/ TaskRun(w) \/ CheckLimit(w) \/ ConsumeLimit(w) \/ AccountStart(w)
          \/ IgAcquire(w) \/ IgPublish(w) \/ IgRelease(w) \/ YtPublish(w)
          \/ Sleep(w) \/ ExecFinal(w)
    \/ \E a \in IgAccounts : Expire(a)

ExecInit == InitPay /\ InitStore /\ InitPost /\ InitExec

SpecExec == ExecInit /\ [][NextExec]_vars


\* ============================================ the task layer on legacy rows
\* Rows of posts that predate the user_id column and the posts_accounts table:
\* post 1 has a user and no row of posts_accounts, post 2 has no user_id.
LegacyPosts ==
    [p \in PostIds |->
        CASE p = 1 -> [status |-> "Pending", scheduled_time |-> NoTime,
                       user_id |-> "u1", account_ids |-> <<>>]
          [] p = 2 -> [status |-> "Pending", scheduled_time |-> NoTime,
                       user_id |-> NULL, account_ids |-> <<"a1">>]
          [] OTHER -> NoPost]

InitLegacyStore ==
    /\ posts = LegacyPosts
    /\ queue = <<>>

NextTask ==
    \/ \E post_id \in PostIds : execute_post_now(post_id)
    \/ \E post_id \in PostIds : repost_failed_post(post_id)
    \/ \E w \in Workers : TaskRun(w) \/ ExecFatal(w)

TaskInit == InitPay /\ InitLegacyStore /\ InitPost /\ InitExec

SpecTask == TaskInit /\ [][NextTask]_vars

\* =================================== whole runs of execute_post, both ends
\* Post 1 is a legacy row with a user and no row of posts_accounts, whose run
\* ends in the outer except; post 2 is a row as add_post writes it, whose run
\* goes through the loops to the final status.
RunPosts ==
    [p \in PostIds |->
        CASE p = 1 -> [status |-> "Pending", scheduled_time |-> NoTime,
                       user_id |-> "u1", account_ids |-> <<>>]
          [] p = 2 -> [status |-> "Pending", scheduled_time |-> NoTime,
                       user_id |-> "u1", account_ids |-> <<"a1", "a3">>]
          [] OTHER -> NoPost]

InitRunStore ==
    /\ posts = RunPosts
    /\ queue = <<>>

NextRun ==
    \/ \E post_id \in PostIds : execute_post_now(post_id)
    \/ \E w \in Workers :
          TaskRun(w) \/ ExecLoop(w) \/ ExecFinal(w) \/ ExecFatal(w)

RunInit == InitPay /\ InitRunStore /\ InitPost /\ InitExec

SpecRun == RunInit /\ [][NextRun]_vars

\* ================================= a worker process dying inside the publish
\* The worker process is killed (task_time_limit, out of memory, host down)
\* while its call of _post_to_instagram holds the key: neither the finally nor
\* release runs and the key keeps the lock value of the dead call.  With
\* task_acks_late the message of the task is delivered again or not,
\* depending on how the process died.
Crash(w) ==
    /\ w_pc[w] \in {"ig_publish", "ig_release"}
    /\ redis_lock[CurrentAccount(w)] = w
    /\ w_pc' = [w_pc EXCEPT ![w] = "crashed"]
    /\ \E redelivered \in BOOLEAN :
          queue' = IF redelivered THEN Enqueue(queue, w_task[w]) ELSE queue
    /\ UNCHANGED <<posts, w_task, any_success, clockVars, schedVars, submissions>>
    /\ UNCHANGED <<loopVars, ledgerVars, payVars>>

\* the steps of a running worker process
WorkerStep(w) ==
    \/ TaskRun(w) \/ CheckLimit(w) \/ ConsumeLimit(w) \/ AccountStart(w)
    \/ IgAcquire(w) \/ IgPublish(w) \/ IgRelease(w) \/ Sleep(w) \/ ExecFinal(w)

NextLive ==
    \/ \E user_id \in Users : create_post(user_id, <<"a1">>, NoTime)
    \/ \E w \in Workers : WorkerStep(w)
    \/ \E w \in Workers : Crash(w)
    \/ \E a \in IgAccounts : Expire(a)

LiveInit == InitPay /\ InitStore /\ InitPost /\ InitExec

\* Redis removes a key set with EX once its ttl is over, and a worker process
\* that has not died goes on with its task
SpecLive ==
    /\ LiveInit /\ [][NextLive]_vars
    /\ \A a \in IgAccounts : WF_vars(Expire(a))
    /\ \A w \in Workers : WF_vars(WorkerStep(w))

\* ================================================================ claims

AllDelivered == \A d \in Deliveries : d_pc[d] = "done"
\* the deliveries of a reference that carried a success signal and have ended
Handled(r) == {d \in Deliveries : /\ d_pc[d] = "done" /\ d_ref[d] = r
                                  /\ d_resp[d] \notin {"ignored", "payload_error"}}
\* those that made the paid transition and committed it
Winners(r) == {d \in Handled(r) :
                  d_resp[d] \in {"subscription_payment", "post_payment", "post_failed"}}
PerformedOnce(r) ==
    IF r \in SubRefs THEN effects[r].activations = 1
                     ELSE effects[r].posts = 1 /\ effects[r].tasks = 1
ActiveRows(u) == {i \in DOMAIN user_subscriptions :
                     user_subscriptions[i].user_id = u /\ user_subscriptions[i].is_active}
SumOver(S, f(_)) ==
    LET RECURSIVE sum(_)
        sum(T) == IF T = {} THEN 0
                  ELSE LET x == CHOOSE y \in T : TRUE IN f(x) + sum(T \ {x})
    IN  sum(S)
QueueSize == Len(queue)
PostCount == Cardinality({p \in PostIds : posts[p].status # "absent"})

\* C1 (as stated): once all deliveries have ended, every reference that received
\* a success signal has had its paid side effect performed by exactly one
\* delivery (one activation, or one post and one task), and every other delivery
\* of it was acknowledged as duplicate.
C1_ExactlyOnePerforms ==
    AllDelivered =>
        \A r \in IntentRefs :
            Handled(r) # {} =>
                /\ PerformedOnce(r)
                /\ Cardinality(Winners(r)) = 1
                /\ \A d \in Handled(r) \ Winners(r) : d_resp[d] = "duplicate"

\* C1 (amended): for every reference at most one delivery performs the paid side
\* effect (at most one activation, one post, one task; the rows that exist are
\* exactly those effects), and exactly one does when neither the activation nor
\* the materialization raises; a delivery that finds the intent paid is
\* acknowledged as duplicate.
C1_AtMostOnePerforms ==
    /\ \A r \in IntentRefs :
          /\ effects[r].activations <= 1 /\ effects[r].posts <= 1 /\ effects[r].tasks <= 1
          /\ Cardinality(Winners(r)) <= 1
          /\ \A d \in Handled(r) : d_resp[d] = "duplicate" => payment_status[r] = "paid"
    /\ Len(user_subscriptions) = 1 + SumOver(SubRefs, LAMBDA r : effects[r].activations)
    /\ PostCount = SumOver(PostRefs, LAMBDA r : effects[r].posts)
    /\ QueueSize = SumOver(PostRefs, LAMBDA r : effects[r].tasks)
    /\ AllDelivered =>
          \A r \in IntentRefs :
              (Handled(r) # {} /\ \A d \in Handled(r) : d_resp[d] \notin {"error500", "post_failed"})
                 => /\ PerformedOnce(r)
                    /\ Cardinality(Winners(r)) = 1
                    /\ \A d \in Handled(r) \ Winners(r) : d_resp[d] = "duplicate"

\* C1 witness: three deliveries of one subscription reference have ended, one
\* activated the subscription and the other two were duplicates.
C1_Witness ==
    /\ AllDelivered
    /\ Cardinality(Handled("r1")) = NumDeliveries
    /\ Cardinality(Winners("r1")) = 1
    /\ effects["r1"].activations = 1

\* C6 (as stated): in every state each user has at most one row of
\* user_subscriptions with is_active = TRUE.
C6_AtMostOneActive ==
    \A u \in {"u1", "u2"} : Cardinality(ActiveRows(u)) <= 1
\* ------------------------------------------------------------------ C2
\* C2 (as stated): when two scheduler poll cycles race on the same due post, one
\* of them alone makes the transition Pending -> queued and the post is submitted
\* to the task queue once for that due-cycle: no post has more than one
\* scheduler submission since it last entered Pending.
C2_SubmittedOncePerDueCycle ==
    \A p \in PostIds : submissions[p].scheduler <= 1

\* ------------------------------------------------------------------ C3
StatusEdges ==
    {<<"Pending", "queued">>, <<"queued", "processing">>,
     <<"processing", "posted">>, <<"processing", "failed">>,
     <<"Pending", "cancelled">>, <<"failed", "Pending">>}

\* C3 (as stated): every change of a post's status follows one of the edges
\* Pending -> queued, queued -> processing, processing -> posted,
\* processing -> failed, Pending -> cancelled, failed -> Pending.  The insertion
\* of the row in status Pending is no change, and the step Pending -> processing
\* of a post submitted for immediate execution is let through as well.
C3_StatusFollowsEdges ==
    [][\A p \in PostIds :
          (posts[p].status # "absent" /\ posts'[p].status # posts[p].status)
          => \/ <<posts[p].status, posts'[p].status>> \in StatusEdges
             \/ /\ posts[p].status = "Pending"
                /\ posts'[p].status = "processing"
                /\ posts[p].scheduled_time = NoTime]_vars

\* ----------------------------------------------------------------- C10
\* C10 (as stated): between two consecutive entries of a post into Pending the
\* post id is submitted to the task queue at most once in total, the direct
\* submission of the creating path and the submission of the scheduler loop
\* counted together.
C10_SubmittedOncePerPending ==
    \A p \in PostIds : submissions[p].direct + submissions[p].scheduler <= 1

\* ------------------------------------------------------------------ C4
Finished(w) == w_run[w].final # "none"

\* C4: when execute_post runs through all platform groups and accounts, the
\* final status it writes is posted if and only if the publish of at least one
\* account completed as a success, and failed otherwise.
C4_PostedIffSomeSuccess ==
    \A w \in Workers :
        Finished(w) => (w_run[w].final = "posted" <=> w_run[w].published # {})

\* a run with one account that exhausted its retries and one that succeeded
C4_Witness ==
    \E w \in Workers :
        /\ w_run[w].final = "posted"
        /\ w_run[w].failed # {}
        /\ Cardinality(w_run[w].published) = 1

\* ------------------------------------------------------------------ C5
InCS(w, a) == w_cs[w] # "out" /\ CurrentAccount(w) = a

\* C5 (as stated): for every interleaving at most one worker at a time is
\* inside the publish critical section of an account id, also when the critical
\* section lasts longer than the lock TTL and when the lock service raises an
\* error during acquire.
C5_MutualExclusion ==
    \A a \in IgAccounts : Cardinality({w \in Workers : InCS(w, a)}) <= 1

\* C5 (amended): two workers are never inside the critical section of one
\* account id while both hold it through a successful SET NX whose key is still
\* there; a worker let in by the fail-open path of acquire, or one whose key has
\* expired or was deleted by a release that raced with the expiry, can be
\* inside together with another.
C5_ExclusionWhileKeyHeld ==
    \A a \in IgAccounts : \A w1, w2 \in Workers :
        (w1 # w2 /\ InCS(w1, a) /\ InCS(w2, a))
        => (w_cs[w1] # "nx" \/ w_cs[w2] # "nx")

\* one worker inside through its key, the other waiting in acquire on that key
C5_Witness ==
    \E a \in IgAccounts : \E w1, w2 \in Workers :
        /\ w1 # w2
        /\ InCS(w1, a) /\ w_cs[w1] = "nx" /\ redis_lock[a] = w1
        /\ w_pc[w2] = "ig_acquire" /\ CurrentAccount(w2) = a

\* ------------------------------------------------------------------ C7
\* C7 (as stated): in every reachable state, concurrent runs of execute_post
\* for one user and platform included, the posts count of usage_counters never
\* exceeds posts_per_day of the user's active plan.
C7_NeverAboveLimit ==
    \A u \in Users, pl \in Platforms :
        \A plan_id \in ActivePlans(user_subscriptions, u) :
            usage_counters[u][pl] <= posts_per_day[plan_id]

\* C7 (amended): the posts count never exceeds posts_per_day of the active plan
\* as long as no consumption followed a check that another run's consumption
\* had overtaken; with runs overlapping between check and consumption it
\* exceeds the limit by less than the number of workers.
C7_AboveLimitOnlyWhenOvertaken ==
    \A u \in Users, pl \in Platforms :
        \A plan_id \in ActivePlans(user_subscriptions, u) :
            /\ ~overtaken[u][pl] => usage_counters[u][pl] <= posts_per_day[plan_id]
            /\ usage_counters[u][pl] < posts_per_day[plan_id] + Cardinality(Workers)

\* the count stands at the limit, no check was overtaken, and a run has found
\* the quota exhausted
C7_Witness ==
    \E w \in Workers, pl \in Platforms :
        /\ Finished(w) /\ pl \in w_run[w].exhausted
        /\ ~overtaken[PostUser(w)][pl]
        /\ \E plan_id \in ActivePlans(user_subscriptions, PostUser(w)) :
               usage_counters[PostUser(w)][pl] = posts_per_day[plan_id]

\* ------------------------------------------------------------------ C8
\* C8: when the user's posts count for the platform stands at the plan's limit,
\* or the user has no active subscription, execute_post for a post that targets
\* that platform alone skips the platform group: no call of a publish function,
\* no lock acquisition, no unit consumed, and the final status is failed.
C8_ExhaustedGroupSkipped ==
    \A w \in Workers :
        (Len(w_groups[w]) = 1 /\ w_run[w].exhausted # {})
        => /\ w_run[w].calls = 0
           /\ w_run[w].acquires = 0
           /\ w_run[w].consumed = 0
           /\ w_pc[w] \in {"final", "idle"}
           /\ ~any_success[w]
           /\ w_pc[w] = "idle" => w_run[w].final = "failed"

\* a finished run of a user whose count stood at the limit of the plan
C8_Witness ==
    \E w \in Workers :
        /\ w_pc[w] = "idle" /\ w_run[w].final = "failed"
        /\ Len(w_groups[w]) = 1 /\ w_run[w].exhausted # {}
        /\ ActivePlans(user_subscriptions, PostUser(w)) # {}
        /\ posts[w_task[w].post_id].status = "failed"

\* ------------------------------------------------------------------ C9
\* C9: when a call of the publish function raises the ValidationError, on
\* whichever attempt, _execute_with_retries returns: the function is not called
\* again, there is no sleep, and the executor counts the account as a success.
C9_ValidationErrorReturns ==
    \A w \in Workers :
        w_outcome[w] = "validation"
        => /\ w_pc[w] \notin {"sleep", "ig_acquire", "ig_publish", "yt_publish"}
           /\ w_pc[w] # "ig_release" => any_success[w]

\* the ValidationError on a second attempt, the account counted
C9_Witness ==
    \E w \in Workers :
        /\ w_outcome[w] = "validation" /\ w_attempt[w] = 2
        /\ w_pc[w] \notin {"ig_release"} /\ any_success[w]
        /\ w_run[w].calls = 2

\* ----------------------------------------------------------------- C11
\* C11 (as stated): once a post's status is failed it stays failed until the
\* user's repost action: every step that changes the status of a failed post
\* is a request to the posts API that sets it to Pending; no step of a
\* scheduler or of a worker changes it.
C11_FailedStaysFailed ==
    [][\A p \in PostIds :
          (posts[p].status = "failed" /\ posts'[p].status # "failed")
          => (posts'[p].status = "Pending" /\ api_calls' = api_calls + 1)]_vars

\* ----------------------------------------------------------------- C12
\* C12 (as stated): the cancel action takes effect only on a post whose status
\* is Pending: every step in which a post becomes cancelled, or in which the
\* cancel request clears a scheduled time, starts from status Pending; on a
\* post that is queued, processing, posted or failed it changes nothing.
C12_CancelOnlyFromPending ==
    [][\A p \in PostIds :
          (posts[p].status \notin {"absent", "cancelled"} /\ posts'[p].status = "cancelled")
          => posts[p].status = "Pending"]_vars

\* ----------------------------------------------------------------- C13
\* C13 (as stated): a delivery of execute_scheduled_post that finds the post
\* already processing or posted does nothing: no worker leaves idle for the
\* executor's loop over the accounts (the publish calls) of a post that the
\* delivery found in one of these two states.
C13_RedeliveryDoesNothing ==
    [][\A w \in Workers :
          (w_pc[w] = "idle" /\ w_pc'[w] # "idle")
          => posts[w_task'[w].post_id].status \notin {"processing", "posted"}]_vars

\* ----------------------------------------------------------------- C14
\* the worker has set the lock key of the account and the key is still its own;
\* only the instagram path ever sets a key
HoldsAccountLock(w, a) == a \in IgAccounts /\ redis_lock[a] = w

\* C14 (as stated): every publish that execute_post performs against an
\* account, instagram or youtube, happens while the executing worker holds the
\* account lock of that account: a worker that stands at a publish call holds
\* the lock of the account it publishes to.
C14_PublishUnderLock ==
    \A w \in Workers :
        w_pc[w] \in {"ig_publish", "yt_publish"}
        => HoldsAccountLock(w, CurrentAccount(w))

\* ----------------------------------------------------------------- C15
\* C15 (as stated): release never removes a lock that another holder owns:
\* whatever happens between its read of the key and its delete, a step in
\* which a worker finishes release on an account whose key then carries another
\* holder's token leaves that token in place.
C15_ReleaseKeepsOthersKey ==
    [][\A w \in Workers :
          (w_pc[w] = "ig_release" /\ w_pc'[w] # "ig_release")
          => LET a == CurrentAccount(w)
             IN  redis_lock[a] \notin {"free", w} => redis_lock'[a] = redis_lock[a]]_vars

\* ----------------------------------------------------------------- C16
PlatformsOf(account_ids) == {platform_of[account_ids[i]] : i \in DOMAIN account_ids}
\* the units a run has added to the posts count of the user for a platform
UnitsCharged(w, pl) ==
    Cardinality({i \in DOMAIN w_run[w].charged : w_run[w].charged[i] = pl})

\* C16: one run of execute_post adds exactly 1 to the posts count of (user,
\* platform) for each platform of the post whose group is allowed, however many
\* accounts the group has, and 0 for each platform whose group is blocked; at
\* no point of the run has it added more than 1 for a platform.
C16_OneUnitPerAllowedGroup ==
    \A w \in Workers :
        w_task[w].post_id \in PostIds =>
            \A pl \in Platforms :
                /\ UnitsCharged(w, pl) <= 1
                /\ Finished(w) =>
                      UnitsCharged(w, pl) =
                          IF /\ pl \in PlatformsOf(posts[w_task[w].post_id].account_ids)
                             /\ pl \notin w_run[w].exhausted
                          THEN 1 ELSE 0

\* a finished run whose instagram group of two accounts was allowed and cost
\* one unit, and whose youtube group was blocked and cost none
C16_Witness ==
    \E w \in Workers :
        /\ Finished(w)
        /\ \E i \in DOMAIN w_groups[w] :
              /\ w_groups[w][i].platform = "instagram"
              /\ Len(w_groups[w][i].accounts) = 2
        /\ UnitsCharged(w, "instagram") = 1
        /\ w_run[w].exhausted = {"youtube"}
        /\ UnitsCharged(w, "youtube") = 0
        /\ w_run[w].calls >= 2

\* ----------------------------------------------------------------- C17
\* C17: the repost request applied to a failed post (the request to the posts
\* API that changes the row of a failed post and puts a message into the
\* queue) sets the status to Pending, submits the post id for execution at
\* once, and leaves the account mappings, the scheduled time and the user of
\* the post, and every other post, as they were.
C17_RepostKeepsThePost ==
    [][\A p \in PostIds :
          (/\ posts[p].status = "failed"
           /\ posts'[p] # posts[p]
           /\ queue' # queue
           /\ api_calls' = api_calls + 1)
          => /\ posts'[p] = [posts[p] EXCEPT !.status = "Pending"]
             /\ \A q \in PostIds \ {p} : posts'[q] = posts[q]
             /\ queue' = Submit(queue, p, 0)]_vars

\* a scheduled post whose only run ended failed has been reposted: it is
\* Pending with its schedule and accounts, and its message waits in the queue
C17_Witness ==
    \E p \in PostIds :
        /\ posts[p].status = "Pending"
        /\ posts[p].scheduled_time = 1
        /\ posts[p].account_ids = <<"a1", "a3">>
        /\ queue = <<[post_id |-> p, eta |-> 0, retries |-> 0]>>
        /\ api_calls = 2
        /\ \A w \in Workers : w_pc[w] = "idle"
        /\ \E w \in Workers : w_task[w].post_id = p
        /\ \A w \in Workers : w_task[w].post_id = p => w_run[w].final = "failed"

\* ----------------------------------------------------------------- C18
\* the spellings, among the values a payload carries, that are one of the
\* success tokens when compared without regard to case
SuccessStatus == {"paid", "PAID", "success", "Successful"}
SuccessEvent == {"payment.success", "PAYMENT.PAID"}
Signalled(d) ==
    d_payload[d].status \in SuccessStatus \/ d_payload[d].event \in SuccessEvent
TextPayload(d) ==
    d_payload[d].status \notin NonText /\ d_payload[d].event \notin NonText
\* the request went on to the ledger
TreatedAsSuccess(d) ==
    d_resp[d] \notin {"400", "ignored", "payload_error"} /\ d_pc[d] # "idle"
\* no payment, subscription or post state has changed
Untouched ==
    /\ \A r \in IntentRefs : payment_status[r] = "pending" /\ row_lock[r] = 0
    /\ Len(user_subscriptions) = 1
    /\ \A i \in DOMAIN user_subscriptions : user_subscriptions[i].is_active
    /\ PostCount = 0 /\ queue = <<>>
WithReference(d) == d_payload[d].recorded /\ d_ref[d] # NULL

MaterializationFailed(d) ==
    /\ d_pc[d] = "done" /\ d_ref[d] \in PostRefs
    /\ d_resp[d] \notin {"400", "ignored", "payload_error", "duplicate", "post_payment"}

Structural(p) == posts[p].user_id = NULL \/ posts[p].account_ids = <<>>

\* C20 (as stated): a submission for a post without linked accounts or without
\* user id is executed once and not again: the task queue never holds a retry
\* message for such a post, and no worker runs the executor for it on a retry.
C20_FatalNotRetried ==
    /\ \A i \in DOMAIN queue :
          Structural(queue[i].post_id) => queue[i].retries = 0
    /\ \A w \in Workers :
          (w_pc[w] = "fatal" /\ Structural(w_task[w].post_id)) => w_task[w].retries = 0

\* ----------------------------------------------------------------- C21
\* C21: the scheduler loop submits a post only if the query of its cycle found
\* it Pending with a scheduled time that is set and not later than now.  The
\* list a cycle reads holds such posts only, a cycle under way only drops the
\* head of its list, and every message that enters the queue without a request
\* to the posts API is the message of the head of the list of a cycle.
C21_SubmitsOnlyDuePosts ==
    [][/\ \A s \in Schedulers :
             (sched_pc[s] = "sleep" /\ sched_pc'[s] = "dispatch")
             => \A i \in DOMAIN due_posts'[s] :
                   LET post == posts[due_posts'[s][i]]
                   IN  /\ post.status = "Pending"
                       /\ post.scheduled_time # NoTime
                       /\ post.scheduled_time <= now
       /\ \A s \in Schedulers :
             (sched_pc[s] = "dispatch" /\ due_posts'[s] # due_posts[s])
             => due_posts'[s] = Tail(due_posts[s])
       /\ (Len(queue') > Len(queue) /\ api_calls' = api_calls)
             => \E s \in Schedulers :
                   /\ sched_pc[s] = "dispatch"
                   /\ due_posts'[s] = Tail(due_posts[s])
                   /\ queue' = Submit(queue, Head(due_posts[s]), 0)]_vars

\* two due posts went through one cycle: the submission of one raised and it
\* stays queued without a message of the loop, the other was submitted once,
\* and the loop sleeps with nothing left to do at a time past both schedules
C21_Witness ==
    \E p, q \in PostIds :
        /\ p # q
        /\ posts[p].status = "queued" /\ submissions[p].scheduler = 0
        /\ posts[q].status = "queued" /\ submissions[q].scheduler = 1
        /\ \A s \in Schedulers : sched_pc[s] = "sleep" /\ due_posts[s] = <<>>
        /\ get_due_posts(posts, now) = <<>>
        /\ now = MaxTime

\* ----------------------------------------------------------------- C22
\* C22: in one cycle an exception of the status update or of the submission of
\* one due post does not stop the cycle.  A cycle is under way exactly while
\* posts of its list are left; each of its steps takes the head of the list and
\* nothing else, whatever the calls for that head did, so the posts behind it
\* get their turn; a message is submitted only for a head whose status write
\* went through, and the rows of the other posts are not touched by the step.
C22_ErrorDoesNotStopCycle ==
    [][\A s \in Schedulers :
          /\ (sched_pc[s] = "dispatch") <=> (due_posts[s] # <<>>)
          /\ (sched_pc[s] = "dispatch" /\ due_posts'[s] # due_posts[s])
             => LET post_id == Head(due_posts[s])
                    rest == Tail(due_posts[s])
                IN  /\ due_posts'[s] = rest
                    /\ sched_pc'[s] = IF rest = <<>> THEN "sleep" ELSE "dispatch"
                    /\ queue' # queue
                         => /\ queue' = Submit(queue, post_id, 0)
                            /\ posts'[post_id].status = "queued"
                    /\ \A q \in PostIds \ {post_id} : posts'[q] = posts[q]
                    /\ posts'[post_id] # posts[post_id]
                         => posts'[post_id] =
                               [posts[post_id] EXCEPT !.status = "queued"]]_vars

\* one cycle over two due posts: the status update of the earlier one raised,
\* it is still Pending and was never submitted, and the later one was marked
\* queued and submitted by the same cycle.  The two requests made were the two
\* creations, the Pending post is both the older row and the earlier schedule,
\* so it stood before the other one in the list of the cycle that submitted it.
C22_Witness ==
    \E p, q \in PostIds :
        /\ p < q /\ api_calls = 2
        /\ posts[p].status = "Pending" /\ posts[q].status = "queued"
        /\ posts[p].scheduled_time # NoTime /\ posts[q].scheduled_time # NoTime
        /\ posts[p].scheduled_time < posts[q].scheduled_time
        /\ submissions[p].scheduler = 0 /\ submissions[q].scheduler = 1
        /\ posts[q].scheduled_time <= now
        /\ \A s \in Schedulers : sched_pc[s] = "sleep"
        /\ \E i \in DOMAIN queue : queue[i].post_id = q /\ queue[i].eta = 0

\* ----------------------------------------------------------------- C23
\* C23: _execute_with_retries with max_attempts = N calls func at most N times,
\* stops at the first call that returns normally, sleeps only between attempts
\* and raises after N failing calls.  A call starts only at the head of an
\* attempt numbered 1..N, the head of an attempt is reached only from the start
\* of the account (attempt 1) or from a sleep (one attempt more), a sleep
\* follows only a failed call that was not the N-th, and the wrapper is left
\* either by a return after a call taken as a success (a normal return, or the
\* ValidationError that section 4.2.1 counts as success) or, after the N-th
\* failing call, by the exception that makes the account a failure.
InCall == {"ig_acquire", "ig_publish", "ig_release", "yt_publish"}

AttemptHead == {"ig_acquire", "yt_publish"}

C23_BoundedAttempts ==
    [][\A w \in Workers :
          /\ w_pc[w] \in InCall \cup {"sleep"} => w_attempt[w] \in 1..MAX_RETRIES
          /\ w_run'[w].calls > w_run[w].calls
                => /\ w_run'[w].calls = w_run[w].calls + 1
                   /\ w_pc[w] \in AttemptHead /\ w_pc'[w] # w_pc[w]
                   /\ w_attempt'[w] = w_attempt[w]
          /\ (w_pc'[w] \in AttemptHead /\ w_pc'[w] # w_pc[w])
                => \/ w_pc[w] = "account" /\ w_attempt'[w] = 1
                   \/ w_pc[w] = "sleep" /\ w_attempt'[w] = w_attempt[w] + 1
          /\ (w_pc'[w] = "sleep" /\ w_pc[w] # "sleep")
                => /\ w_pc[w] \in InCall
                   /\ w_outcome'[w] = "error"
                   /\ w_attempt[w] < MAX_RETRIES
                   /\ any_success'[w] = any_success[w]
          /\ (w_pc[w] \in InCall /\ w_pc'[w] \notin InCall \cup {"sleep"})
                => \/ /\ w_outcome'[w] \in {"ok", "validation"}
                      /\ any_success'[w]
                      /\ w_run'[w].failed = w_run[w].failed
                   \/ /\ w_outcome'[w] = "error"
                      /\ w_attempt[w] = MAX_RETRIES
                      /\ CurrentAccount(w) \in w_run'[w].failed
                      /\ any_success'[w] = any_success[w]
          /\ (w_pc[w] \in InCall /\ w_pc'[w] \notin {"ig_publish", "ig_release"}
              /\ w_pc'[w] # w_pc[w] /\ w_outcome'[w] = "ok")
                => w_pc'[w] # "sleep" /\ any_success'[w]]_vars

\* a run over one account whose wrapper made its N calls, every one of them
\* failing, and then raised: the account is a failure and the run is past it
C23_Witness ==
    \E w \in Workers :
        /\ Len(w_groups[w]) = 1 /\ Len(w_groups[w][1].accounts) = 1
        /\ w_run[w].calls = MAX_RETRIES /\ w_attempt[w] = MAX_RETRIES
        /\ w_run[w].failed = {w_groups[w][1].accounts[1]}
        /\ w_outcome[w] = "error" /\ ~any_success[w]
        /\ w_pc[w] = "final"

\* ----------------------------------------------------------------- C24
\* C24: a failure of one account is caught at account level.  No run is ever at
\* the outer except of execute_post, and when a run comes to its final status
\* write the iteration of every account of every platform group whose quota
\* was consumed has been entered, the accounts behind a failed one included.
AllowedAccounts(w) ==
    UNION {{w_groups[w][i].accounts[j] : j \in DOMAIN w_groups[w][i].accounts} :
              i \in {k \in DOMAIN w_groups[w] :
                        \E c \in DOMAIN w_run[w].charged :
                           w_run[w].charged[c] = w_groups[w][k].platform}}

C24_AccountFailureContained ==
    \A w \in Workers :
        /\ w_pc[w] # "fatal"
        /\ w_run[w].failed \subseteq w_run[w].started
        /\ w_pc[w] = "final" => w_run[w].started = AllowedAccounts(w)

\* a run over two platform groups, both allowed, whose first account failed:
\* the accounts after it were all entered and one of them published
C24_Witness ==
    \E w \in Workers :
        /\ w_pc[w] = "final"
        /\ Len(w_groups[w]) = 2 /\ Len(w_run[w].charged) = 2
        /\ w_groups[w][1].accounts[1] \in w_run[w].failed
        /\ Cardinality(w_run[w].started) = 3
        /\ w_run[w].published # {}

\* ----------------------------------------------------------------- C25
\* C25 (as stated): whenever a call of _post_to_instagram that has acquired the
\* lock returns or raises, the key no longer holds the lock value of that call:
\* in the step that ends a call whose value the key carries, the key loses it.
C25_KeyGoneWhenCallEnds ==
    [][\A w \in Workers :
          (w_pc[w] \in {"ig_publish", "ig_release"}
           /\ w_pc'[w] \notin {"ig_publish", "ig_release"})
          => LET a == CurrentAccount(w)
             IN  redis_lock[a] = w => redis_lock'[a] \notin {w, EndedCall}]_vars

\* ----------------------------------------------------------------- C26
\* C26: when a worker that holds the lock of an account dies without releasing
\* it, the key becomes free once its TTL is over, and another worker that then
\* tries to acquire the lock of that account succeeds: every key that is set
\* is free again later, and a worker that stands in acquire on the free key of a
\* dead holder goes on into the publish.
C26_NoAccountLockedForever ==
    /\ \A a \in IgAccounts :
          (redis_lock[a] # "free") ~> (redis_lock[a] = "free")
    /\ \A a \in IgAccounts : \A w, v \in Workers :
          (/\ w # v /\ w_pc[w] = "crashed" /\ redis_lock[a] = "free"
           /\ w_pc[v] = "ig_acquire" /\ CurrentAccount(v) = a)
          ~> (w_pc[v] = "ig_publish" /\ CurrentAccount(v) = a)

\* a worker died holding the key of a1; the key has expired since, and the
\* other worker has set it and stands in the publish
C26_Witness ==
    \E w, v \in Workers :
        /\ w_pc[w] = "crashed" /\ CurrentAccount(w) = "a1" /\ w_cs[w] # "out"
        /\ w_pc[v] = "ig_publish" /\ CurrentAccount(v) = "a1"
        /\ redis_lock["a1"] = v

\* ----------------------------------------------------------------- C27
\* C27: every run of execute_post that has set the status to processing ends
\* with the status written as posted or failed; when an exception leaves the
\* loops the status written is failed and the exception goes on to the task.
\* A row reads processing only while a run on that post is under way; the step
\* that ends a run leaves the row posted or failed; and the step that ends a
\* run in the outer except leaves it failed and hands the exception to the
\* task, which shows as the retry message while the task has retries left.
RunUnderWay(w, p) == w_pc[w] \in {"loop", "final", "fatal"} /\ w_task[w].post_id = p

C27_RunEndsPostedOrFailed ==
    [][/\ \A p \in PostIds :
             posts[p].status = "processing" => \E w \in Workers : RunUnderWay(w, p)
       /\ \A w \in Workers :
             (w_pc[w] \in {"loop", "final", "fatal"} /\ w_pc'[w] = "idle")
             => LET p == w_task[w].post_id
                IN  /\ posts'[p].status \in {"posted", "failed"}
                    /\ w_pc[w] = "fatal"
                         => /\ posts'[p].status = "failed"
                            /\ w_task[w].retries < max_retries
                                 => \E i \in DOMAIN queue' :
                                       /\ queue'[i].post_id = p
                                       /\ queue'[i].retries = w_task[w].retries + 1
                                       /\ Len(queue') = Len(queue) + 1]_vars

\* both ends have happened: the run of the post without accounts ended in the
\* outer except (failed, its retry message waiting), the run of the other post
\* ended with the final status write, and no worker is in a run
C27_Witness ==
    /\ posts[1].status = "failed" /\ posts[2].status \in {"posted", "failed"}
    /\ \E i \in DOMAIN queue : queue[i].post_id = 1 /\ queue[i].retries = 1
    /\ \E w, v \in Workers :
          /\ w_task[w].post_id = 1 /\ w_run[w].final = "failed"
          /\ w_task[v].post_id = 2 /\ w_run[v].final = posts[2].status
    /\ \A w \in Workers : w_pc[w] = "idle"

\* ----------------------------------------------------------------- C28
\* C28: for a subscription intent the transition to paid and the activation
\* commit together or not at all.  In every committed state the intent is paid
\* exactly when the row of user_subscriptions that its activation inserts is
\* there, and an intent whose delivery ended in the error of the activation is
\* pending, without a row.
ActivationRows(r) ==
    {i \in DOMAIN user_subscriptions :
        /\ user_subscriptions[i].user_id = SubscriptionIntents[r].user_id
        /\ user_subscriptions[i].plan_id = SubscriptionIntents[r].plan_id}

C28_PaidWithActivation ==
    \A r \in SubRefs :
        /\ payment_status[r] = "paid" <=> ActivationRows(r) # {}
        /\ (\E d \in Deliveries : d_ref[d] = r /\ d_resp[d] = "error500")
              => payment_status[r] = "pending" /\ ActivationRows(r) = {}

\* one delivery has activated r1 (paid, with its row), another met the deleted
\* plan of r5 and ended in the error, and r5 is pending for the next delivery
C28_Witness ==
    /\ payment_status["r1"] = "paid" /\ ActivationRows("r1") # {}
    /\ payment_status["r5"] = "pending"
    /\ \E d \in Deliveries : d_ref[d] = "r5" /\ d_resp[d] = "error500"
    /\ \E d \in Deliveries : d_ref[d] = "r5" /\ d_pc[d] = "mark_sub"

\* ----------------------------------------------------------------- C29
\* C29 (as stated): after the status of a post has become cancelled the
\* executor performs no publish for it and never changes its status, also when
\* a task of the post was in the queue before the cancellation: no worker
\* starts a run on a cancelled post, and a step that is no request to the posts
\* API leaves a cancelled post cancelled.
C29_CancelledIsLeftAlone ==
    [][\A p \in PostIds :
          posts[p].status = "cancelled"
          => /\ \A w \in Workers :
                   (w_pc[w] = "idle" /\ w_pc'[w] # "idle") => w_task'[w].post_id # p
             /\ api_calls' = api_calls => posts'[p].status = "cancelled"]_vars

\* ----------------------------------------------------------------- C30
\* C30 (as stated): execute_scheduled_post for a post id without a row in the
\* database aborts: it ends without calling the executor, without raising and
\* without a task-level retry.  No worker is ever in a run on a post that has no
\* row, and no message of such a post is a retry.
C30_AbsentPostAborts ==
    /\ \A w \in Workers :
          w_pc[w] # "idle" => posts[w_task[w].post_id].status # "absent"
    /\ \A i \in DOMAIN queue :
          posts[queue[i].post_id].status = "absent" => queue[i].retries = 0

====
